---- MODULE Spec2Model ----
(***************************************************************************)
(* Model of ratinabox/contribs/TaskEnvironment.py: Reward, RewardCache,    *)
(* TaskEnvironment, GoalCache, SpatialGoal and SpatialGoalEnvironment.     *)
(*                                                                         *)
(* SpatialGoalEnvironment.__init__ cannot run to its end (line 861 calls   *)
(* GoalCache() without the env argument line 678 requires, and line 903    *)
(* reads self.goalkws before line 863 assigns it).  The model therefore    *)
(* starts from the fields TaskEnvironment.__init__ assigns (lines 223-263) *)
(* with goal_cache, possible_goals and n_goals attached as lines 859-862   *)
(* assign them, the GoalCache being built by GoalCache.__init__ (lines     *)
(* 678-685), and lets a caller invoke the public operations in any order.  *)
(*                                                                         *)
(* A Python exception is the value of err after the call ("none" when the  *)
(* call returned); what the call had already assigned stays assigned.      *)
(* Time is counted in ticks of dt; Python list index k is Seq index k+1.   *)
(***************************************************************************)
EXTENDS Integers, Sequences, FiniteSets, TLC

\* ---------------------------------------------------------------- bounds
MaxAgents == 2
MaxPos == 1
MaxGoals == 2
MaxT == 1
MaxEpisode == 3
MaxCache == 1
\* lifetime, in ticks, of the reward templates (line 611 gives the default
\* template expire_clock=1 at dt=0.01, a hundred ticks)
MaxExpire == 2
\* entries of a ledger that is updated on its own, and the updates a
\* history dict records, or a reward has stayed for, before the ledger is
\* updated no more
MaxLedger == 2
MaxHistory == 2

\* one tick of the environment clock (dt=0.01, line 220), the unit of time
dt == 1

Positions == 0..MaxPos

VARIABLES
  Agents,         \* env.Agents: the agents, each with its position
  reward_caches,  \* env.reward_caches: one RewardCache.cache per agent
  histories,      \* the history dicts of the Reward objects, by name
  t,              \* env.t, in ticks
  episodes,       \* env.episodes: the four lists of the episode log
  episode,        \* env.episode
  goal_cache,     \* env.goal_cache: goals, mode, agentmode, cursor dict
  possible_goals, \* env.possible_goals
  n_goals,        \* env.n_goals
  err,            \* exception raised by the most recent call, or "none"
  ret,            \* tuple returned by the most recent call, <<>> if it raised
  op,             \* the most recent call, by name, or "call" for the calls
                  \* no formula asks about
  pre,            \* what the most recent call found and was given
  checked,        \* <<agent index, goal index>> pairs the most recent check() tested
  credited        \* per agent index: goal indices credited by this GoalCache so far

vars == <<Agents, reward_caches, histories, t, episodes, episode, goal_cache,
          possible_goals, n_goals, err, ret, op, pre, checked, credited>>

\* ---------------------------------------------------------------- helpers
RemoveAt(s, k) == SubSeq(s, 1, k - 1) \o SubSeq(s, k + 1, Len(s))

RECURSIVE SumSeq(_)
SumSeq(s) == IF s = <<>> THEN 0 ELSE Head(s) + SumSeq(Tail(s))

Abs(x) == IF x < 0 THEN -x ELSE x

RECURSIVE Pow(_, _)
Pow(b, n) == IF n <= 0 THEN 1 ELSE b * Pow(b, n - 1)

\* ---------------------------------------------------------------- Reward
\* an argument left at its default None
None == -99

\* the decay argument when it is not a string: left at None, or a
\* function of the state
NoDecay == "<None>"
custom_decay == "<function>"

\* the function a caller passes as decay
custom_law(x) == x + 1

\* the names Reward.decay_preset and Reward.decay_knobs_preset have keys for
PresetNames == {"constant", "linear", "exponential", "none"}

\* Reward.decay_preset: the rate a preset gives at a state, knob a
\* ("exponential" needs np.exp and is not computed here)
decay_preset(preset, a, x) ==
  CASE preset = "constant" -> a
    [] preset = "linear"   -> a * x
    [] preset = "none"     -> 0

\* Reward.decay_knobs_preset: the knob list a preset gets when none is given
decay_knobs_preset(preset) ==
  CASE preset = "constant" -> <<1>>
    [] preset = "linear"   -> <<1>>
    [] preset = "none"     -> <<>>

\* an __init__ that looks a preset name up only when no knobs are given
Reward_raises_lazy(decay, decay_knobs) ==
  IF decay = NoDecay THEN "none"
  ELSE IF decay = custom_decay
    THEN (IF decay_knobs = <<>> THEN "KeyError" ELSE "none")
  ELSE IF decay \notin PresetNames /\ decay_knobs = <<>> THEN "KeyError" ELSE "none"

\* the exception Reward.__init__ ends with: a name that is no key of
\* decay_preset fails at line 86 without knobs and at line 87 with them; a
\* function without knobs makes line 91 look up decay_knobs_preset["custom"]
Reward_raises(decay, decay_knobs) ==
  IF decay = NoDecay THEN "none"
  ELSE IF decay = custom_decay
    THEN (IF decay_knobs = <<>> THEN "KeyError" ELSE "none")
  ELSE IF decay \notin PresetNames THEN "KeyError" ELSE "none"

\* Reward.__init__ when it does not raise.  rdt is the dt argument,
\* external_drive the value the drive function returns (None: no drive),
\* history names the dict line 96 creates.  The field decay says what
\* self.decay is: the partial of line 87, the two-argument lambda of
\* line 93, or the caller's function.  state0, born and sweeps are
\* bookkeeping the object does not have: the state and the expire_clock it
\* started with and the updates of its ledger it has been in the ledger for.
Reward(init_state, rdt, expire_clock, decay, decay_knobs, external_drive, external_drive_strength, history) ==
  LET clock  == IF expire_clock # None THEN expire_clock ELSE rdt
      preset == IF decay = NoDecay THEN "constant"
                ELSE IF decay = custom_decay THEN "custom" ELSE decay
  IN
  [state          |-> init_state,
   dt             |-> rdt,
   expire_clock   |-> clock,
   preset         |-> preset,
   decay          |-> IF decay = NoDecay THEN "lambda"
                      ELSE IF decay = custom_decay THEN "function" ELSE "partial",
   decay_knobs    |-> IF decay_knobs # <<>> THEN decay_knobs
                      ELSE decay_knobs_preset(preset),
   external_drive |-> external_drive,
   external_drive_strength |-> external_drive_strength,
   history        |-> history,
   state0         |-> init_state,
   born           |-> clock,
   sweeps         |-> 0]

\* self.decay(state) raises TypeError: a preset is a lambda of two
\* arguments, so the partial must hold exactly one knob, and the lambda
\* line 93 stores as it is gets one argument of two
decay_raises(r) ==
  CASE r.decay = "partial"  -> Len(r.decay_knobs) # 1
    [] r.decay = "lambda"   -> TRUE
    [] r.decay = "function" -> FALSE

\* self.decay(state)
decay(r, state) ==
  IF r.decay = "function" THEN custom_law(state)
  ELSE decay_preset(r.preset, r.decay_knobs[1], state)

\* a delta that adds the decay
get_delta_growing(r) ==
  IF r.external_drive # None
    THEN r.external_drive_strength * (r.external_drive - r.state) + decay(r, r.state)
    ELSE decay(r, r.state)

\* Reward.get_delta
get_delta(r) ==
  IF r.external_drive # None
    THEN r.external_drive_strength * (r.external_drive - r.state) - decay(r, r.state)
    ELSE -(decay(r, r.state))

\* Reward.update: the reward after one update
Reward_update(r) ==
  [r EXCEPT !.state = r.state + get_delta(r) * r.dt,
            !.expire_clock = r.expire_clock - r.dt]

\* the value Reward.update returns
StillActive(r) == ~(r.expire_clock <= 0)

\* ---------------------------------------------------------------- RewardCache
\* bookkeeping: an update of the ledger counts for every entry it finds
Tick(cache) == [k \in 1..Len(cache) |-> [cache[k] EXCEPT !.sweeps = @ + 1]]

\* RewardCache.update: the for loop walks the list by position while
\* remove() shortens it, so the entry after a removed one is not visited.
\* An update that raises ends the loop.  trace collects what lines 113-114
\* append: <<history dict, state, expire_clock>> per update made
RECURSIVE CacheLoop(_, _, _)
CacheLoop(cache, idx, trace) ==
  IF idx > Len(cache) THEN [cache |-> cache, err |-> "none", trace |-> trace]
  ELSE IF decay_raises(cache[idx])
    THEN [cache |-> cache, err |-> "TypeError", trace |-> trace]
  ELSE LET r  == Reward_update(cache[idx])
           c1 == [cache EXCEPT ![idx] = r]
           tr == Append(trace, <<r.history, r.state, r.expire_clock>>)
       IN IF StillActive(r) THEN CacheLoop(c1, idx + 1, tr)
          ELSE CacheLoop(RemoveAt(c1, idx), idx + 1, tr)

\* RewardCache.update: the list after it
RewardCache_update(cache) == CacheLoop(Tick(cache), 1, <<>>).cache

\* the history dicts after the appends of a trace
RECURSIVE Record(_, _)
Record(h, trace) ==
  IF trace = <<>> THEN h
  ELSE Record([h EXCEPT ![Head(trace)[1]] =
                 Append(@, <<Head(trace)[2], Head(trace)[3]>>)], Tail(trace))

\* lines 402-403 of step(): the caches are updated in agent order, and an
\* update that raises leaves the later caches as they were
RECURSIVE UpdateCaches(_, _, _)
UpdateCaches(caches, k, trace) ==
  IF k > Len(caches) THEN [caches |-> caches, err |-> "none", trace |-> trace]
  ELSE LET s  == CacheLoop(Tick(caches[k]), 1, trace)
           c1 == [caches EXCEPT ![k] = s.cache]
       IN IF s.err # "none" THEN [caches |-> c1, err |-> s.err, trace |-> s.trace]
          ELSE UpdateCaches(c1, k + 1, s.trace)

\* RewardCache.get_total
get_total(cache) == SumSeq([k \in 1..Len(cache) |-> cache[k].state])

\* ---------------------------------------------------------------- SpatialGoal
\* Environment.get_distances_between___accounting_for_environment with
\* wall_geometry="line_of_sight", for positions on a line with no wall between
distance(a, b) == Abs(a - b)

\* the module-level default template of line 611
reward_default == Reward(1, dt, MaxExpire, "linear", <<>>, None, 1, "default")

\* the names of the history dicts of the Reward objects callers construct
Histories == {"default", "constant", "short", "dead", "none", "driven", "new"}

\* the templates a caller constructs rewards from
reward_constant == Reward(2, dt, MaxExpire, "constant", <<>>, None, 1, "constant")

Templates == {reward_default, reward_constant}

\* further templates: one that lives a single dt (expire_clock=None), one
\* constructed with expire_clock=0, one with decay="none" and no knobs, and
\* one that follows an external drive of 2 with a dt of two ticks
short == Reward(2, dt, None, "constant", <<>>, None, 1, "short")
dead == Reward(1, dt, 0, "constant", <<>>, None, 1, "dead")
nodecay == Reward(1, dt, MaxExpire, "none", <<>>, None, 1, "none")
driven == Reward(0, 2 * dt, 2 * MaxExpire, "linear", <<1>>, 2, 1, "driven")

LedgerTemplates == {reward_default, short, dead, nodecay, driven}

\* SpatialGoal.__init__ with the template passed positionally, after env,
\* and an explicit goal_radius.  asked is bookkeeping the object does not
\* have: the template the caller gave
SpatialGoal(reward, goal_pos, goal_radius) ==
  [goal_pos |-> goal_pos, radius |-> goal_radius, reward |-> reward, asked |-> reward]

\* SpatialGoal.__init__ with the template passed as reward=: line 772 binds
\* the keyword to a parameter of its own and line 774 does not hand it to
\* Goal.__init__, which falls back on reward_default (line 619)
SpatialGoal_keyword(reward, goal_pos, goal_radius) ==
  [goal_pos |-> goal_pos, radius |-> goal_radius, reward |-> reward_default,
   asked |-> reward]

\* the None that _propose_spatial_goal returns when there is no possible goal
NoneGoal ==
  [goal_pos |-> -1, radius |-> 0, reward |-> reward_default, asked |-> reward_default]

IsNone(g) == g.goal_pos = -1

\* the goals a caller can construct
CandidateGoals == {SpatialGoal(reward_default, p, 1) : p \in Positions}

\* a radius test that also takes the rim
in_goal_radius_rim(goal, pos) == distance(pos, goal.goal_pos) <= goal.radius

\* goals constructed with reward=reward_constant
KeywordGoals == {SpatialGoal_keyword(reward_constant, p, 1) : p \in Positions}

\* SpatialGoal._in_goal_radius
in_goal_radius(goal, pos) == distance(pos, goal.goal_pos) < goal.radius

\* np.where(agents_reached_goal)[0]: the 0-based places, in order, of the
\* agents of the list that are in the radius
RECURSIVE Where(_, _, _)
Where(goal, agents, k) ==
  IF k > Len(agents) THEN <<>>
  ELSE (IF in_goal_radius(goal, agents[k].pos) THEN <<k - 1>> ELSE <<>>)
       \o Where(goal, agents, k + 1)

\* SpatialGoal.check(agents): <<rewards, rewarded_agents>>
SpatialGoal_check(goal, agents) ==
  LET rewarded_agents == Where(goal, agents, 1)
  IN <<[k \in 1..Len(rewarded_agents) |-> goal.reward], rewarded_agents>>

\* ---------------------------------------------------------------- GoalCache
Modes == {"sequential", "nonsequential", "parallel"}
AgentModes == {"interact", "noninteract", "parallel"}

\* GoalCache.__init__: no goals, and a cursor of -1 for each agent the
\* environment has at this moment
GoalCache(agents, mode, agentmode) ==
  [goals |-> <<>>, mode |-> mode, agentmode |-> agentmode,
   last_acheived |-> [i \in 0..(Len(agents) - 1) |-> -1]]

\* GoalCache._handle_agentmode: the exception it ends with.  "interact"
\* runs _agentmode_is_interact, whose body is pass; "parallel" calls
\* _agentmode_is_parallel, which the class does not define
handle_agentmode(agentmode) ==
  IF agentmode = "parallel" THEN "AttributeError" ELSE "none"

\* truth value of `solution_agents == i` (line 708) for the index array
\* SpatialGoal.check returned: elementwise on a one-element array, and
\* False for the empty array (numpy before 2.0, which line 312 requires)
SolutionIs(solution_agents, i) ==
  Len(solution_agents) = 1 /\ solution_agents[1] = i

\* a pass that owes the goal two after the cursor
NextOwed_skip(last, i) == last[i] + 2

\* the owed goal index of line 706
NextOwed(last, i) == last[i] + 1

\* lines 705-712 from agent index i on; c carries the cursor dict, the two
\* result lists, the exception, the <<agent, goal>> checks made so far and
\* those of them that appended a reward (hits)
RECURSIVE SeqLoop(_, _, _, _)
SeqLoop(gc, agents, i, c) ==
  IF i >= Len(agents) \/ c.err # "none" THEN c
  ELSE IF i \notin DOMAIN c.last THEN [c EXCEPT !.err = "KeyError"]
  ELSE LET next == NextOwed(c.last, i) IN
       IF next >= Len(gc.goals) THEN [c EXCEPT !.err = "IndexError"]
       ELSE IF IsNone(gc.goals[next + 1]) THEN [c EXCEPT !.err = "AttributeError"]
       ELSE LET res == SpatialGoal_check(gc.goals[next + 1], <<agents[i + 1]>>)
                hit == SolutionIs(res[2], i)
                c1  == [c EXCEPT !.checked = @ \cup {<<i, next>>},
                                 !.hits    = IF hit THEN @ \cup {<<i, next>>} ELSE @,
                                 !.rewards = IF hit THEN Append(@, res[1]) ELSE @,
                                 !.agents  = IF hit THEN Append(@, i) ELSE @,
                                 !.last    = IF hit THEN [@ EXCEPT ![i] = next] ELSE @]
            IN SeqLoop(gc, agents, i + 1,
                       [c1 EXCEPT !.err = handle_agentmode(gc.agentmode)])

\* lines 715-722: the comprehension calls check() on every goal for all
\* agents, zip(*...) needs at least one goal to unpack into two names, and
\* line 722 returns the name agents, which this branch never assigns
NonSeq(gc, agents, c) ==
  IF \E k \in 1..Len(gc.goals) : IsNone(gc.goals[k])
    THEN [c EXCEPT !.err = "AttributeError"]
  ELSE LET all == {<<i, k - 1>> : i \in 0..(Len(agents) - 1), k \in 1..Len(gc.goals)}
           c1  == [c EXCEPT !.checked = all]
       IN IF gc.goals = <<>> THEN [c1 EXCEPT !.err = "ValueError"]
          ELSE IF handle_agentmode(gc.agentmode) # "none"
            THEN [c1 EXCEPT !.err = handle_agentmode(gc.agentmode)]
          ELSE [c1 EXCEPT !.err = "UnboundLocalError"]

\* a check that takes every mode it does not know for "sequential"
GoalCache_check_lenient(gc, agents) ==
  LET c0 == [last |-> gc.last_acheived, rewards |-> <<>>, agents |-> <<>>,
             err |-> "none", checked |-> {}, hits |-> {}]
  IN IF gc.mode = "nonsequential" THEN NonSeq(gc, agents, c0)
     ELSE SeqLoop(gc, agents, 0, c0)

\* GoalCache.check
GoalCache_check(gc, agents) ==
  LET c0 == [last |-> gc.last_acheived, rewards |-> <<>>, agents |-> <<>>,
             err |-> "none", checked |-> {}, hits |-> {}]
  IN CASE gc.mode = "sequential"    -> SeqLoop(gc, agents, 0, c0)
       [] gc.mode = "nonsequential" -> NonSeq(gc, agents, c0)
       [] OTHER                     -> [c0 EXCEPT !.err = "ValueError"]

\* ---------------------------------------------------------------- TaskEnvironment
\* TaskEnvironment._dict for a value that is not iterable: an entry for
\* every agent name (a mapping over the agents is the tuple of its values
\* in agent order)
dict_of_value(n, V) == [k \in 1..n |-> V]

\* TaskEnvironment._dict for an iterable: zip pairs the names with the
\* values and stops at the shorter of the two
dict_of_list(n, V) == [k \in 1..(IF Len(V) < n THEN Len(V) ELSE n) |-> V[k]]

\* env.info (line 251)
info == <<>>

\* TaskEnvironment.get_reward
get_reward(caches) == [k \in 1..Len(caches) |-> get_total(caches[k])]

\* TaskEnvironment.get_observation: the agents' positions in agent order
get_observation(agents) == [k \in 1..Len(agents) |-> agents[k].pos]

\* an episode that starts at the instant the previous one ended
current_episode_start_at_end(eps) ==
  IF Len(eps.start) = 0 THEN 0 ELSE eps.end[Len(eps.end)]

\* TaskEnvironment._current_episode_start
current_episode_start(eps) ==
  IF Len(eps.start) = 0 THEN 0 ELSE eps.end[Len(eps.end)] + dt

\* TaskEnvironment.write_end_episode
write_end_episode(eps, now) ==
  [eps EXCEPT !.end = Append(@, now),
              !.duration = Append(@, now - eps.start[Len(eps.start)])]

\* TaskEnvironment.write_start_episode
write_start_episode(eps, ep) ==
  [eps EXCEPT !.episode = Append(@, ep),
              !.start = Append(@, current_episode_start(eps))]

\* TaskEnvironment.reset with teleport_on_reset=False: the episode log after it
TaskEnvironment_reset(eps, ep, now) ==
  write_start_episode(
    IF Len(eps.start) > 0 THEN write_end_episode(eps, now) ELSE eps, ep + 1)

\* SpatialGoalEnvironment._propose_spatial_goal: indexing the list
\* possible_goals with the one-element array np.random.choice(.., 1) returns
\* raises TypeError; with no possible goal it warns and returns None
propose_spatial_goal_raises(possible) == Len(possible) > 0

\* lines 934-954 of SpatialGoalEnvironment.reset: <<goals of the cache, exception>>.
\* The cache is cleared first, so find() on it (line 949) returns None for
\* the first requested location and line 951 raises
ResetGoals(possible, ng, given) ==
  IF ng <= 0 THEN <<(<<>>), "none">>
  ELSE IF given THEN <<(<<>>), "ValueError">>
  ELSE IF propose_spatial_goal_raises(possible) THEN <<(<<>>), "TypeError">>
  ELSE <<[g \in 1..ng |-> NoneGoal], "none">>

\* what the formulas below read of the state a call started in: the cursor
\* dict, the goals and the ledgers for check(), the goals, the ledgers and the length of
\* the log for step(), the ledgers and the agent for RewardCache.update,
\* the length of the log, the number of goals asked for and goal_locations
\* for reset(), the goal for SpatialGoal.check, the arguments for the others
NoPre == [last |-> <<>>, goals |-> <<>>, caches |-> <<>>, nstart |-> 0, arg |-> <<>>]

Snapshot(name, arg) ==
  CASE name = "check"  -> [NoPre EXCEPT !.last = goal_cache.last_acheived,
                                         !.goals = goal_cache.goals,
                                         !.caches = reward_caches]
    [] name = "step"   -> [NoPre EXCEPT !.goals = goal_cache.goals,
                                         !.caches = reward_caches,
                                         !.nstart = Len(episodes.start)]
    [] name = "add_agents" -> [NoPre EXCEPT !.caches = reward_caches, !.arg = arg]
    [] name = "Reward" -> [NoPre EXCEPT !.arg = arg]
    [] name = "update" -> [NoPre EXCEPT !.caches = reward_caches, !.arg = arg]
    [] name = "reset"  -> [NoPre EXCEPT !.nstart = Len(episodes.start), !.arg = arg]
    [] name = "goal.check" -> [NoPre EXCEPT !.arg = arg]
    [] OTHER           -> NoPre

Ghost(name, arg) == op' = name /\ pre' = Snapshot(name, arg)

\* ---------------------------------------------------------------- actions
Init ==
  /\ Agents = <<>>
  /\ reward_caches = <<>>
  /\ histories = [h \in Histories |-> <<>>]
  /\ t = 0
  /\ episodes = [episode |-> <<>>, start |-> <<>>, end |-> <<>>, duration |-> <<>>]
  /\ episode = 0
  /\ goal_cache = GoalCache(<<>>, "parallel", "any")
  /\ possible_goals \in {<<>>, <<SpatialGoal(reward_default, 0, 1)>>}
  /\ n_goals = 1
  /\ err = "none"
  /\ ret = <<>>
  /\ op = "init"
  /\ pre = NoPre
  /\ checked = {}
  /\ credited = <<>>

\* TaskEnvironment.add_agents with one Agent at position p whose time step is
\* agent_dt: the test of
\* line 292 negates a non-empty list, so it never raises
add_agents(p, agent_dt) ==
  /\ Len(Agents) < MaxAgents
  /\ Agents' = Append(Agents, [pos |-> p, dt |-> agent_dt])
  /\ reward_caches' = Append(reward_caches, <<>>)
  /\ err' = "none" /\ ret' = <<>> /\ checked' = {}
  /\ Ghost("add_agents", <<agent_dt>>)
  /\ UNCHANGED <<histories, t, episodes, episode, goal_cache, possible_goals, n_goals, credited>>

\* env.goal_cache = GoalCache(env, mode, agentmode)
GoalCache_new(mode, agentmode) ==
  /\ goal_cache' = GoalCache(Agents, mode, agentmode)
  /\ credited' = [i \in 0..(Len(Agents) - 1) |-> {}]
  /\ err' = "none" /\ ret' = <<>> /\ checked' = {}
  /\ Ghost("call", <<>>)
  /\ UNCHANGED <<histories, Agents, reward_caches, t, episodes, episode, possible_goals, n_goals>>

\* GoalCache.append
GoalCache_append(goal) ==
  /\ Len(goal_cache.goals) < MaxGoals
  /\ goal_cache' = [goal_cache EXCEPT !.goals = Append(@, goal)]
  /\ err' = "none" /\ ret' = <<>> /\ checked' = {}
  /\ Ghost("call", <<>>)
  /\ UNCHANGED <<histories, Agents, reward_caches, t, episodes, episode, possible_goals, n_goals, credited>>

\* GoalCache.clear
GoalCache_clear ==
  /\ goal_cache' = [goal_cache EXCEPT !.goals = <<>>]
  /\ err' = "none" /\ ret' = <<>> /\ checked' = {}
  /\ Ghost("call", <<>>)
  /\ UNCHANGED <<histories, Agents, reward_caches, t, episodes, episode, possible_goals, n_goals, credited>>

\* GoalCache.check called on env.goal_cache
check ==
  LET c == GoalCache_check(goal_cache, Agents) IN
  /\ goal_cache' = [goal_cache EXCEPT !.last_acheived = c.last]
  /\ err' = c.err
  /\ ret' = IF c.err = "none" THEN <<c.rewards, c.agents>> ELSE <<>>
  /\ checked' = c.checked
  /\ credited' = [i \in DOMAIN credited |->
                    credited[i] \cup {h[2] : h \in {x \in c.hits : x[1] = i}}]
  /\ Ghost("check", <<>>)
  /\ UNCHANGED <<histories, Agents, reward_caches, t, episodes, episode, possible_goals, n_goals>>

\* SpatialGoal.check(env.Agents) called on the k-th goal of the cache
goal_check(k) ==
  /\ k \in 1..Len(goal_cache.goals)
  /\ ~IsNone(goal_cache.goals[k])
  /\ ret' = SpatialGoal_check(goal_cache.goals[k], Agents)
  /\ err' = "none" /\ checked' = {}
  /\ Ghost("goal.check", <<goal_cache.goals[k]>>)
  /\ UNCHANGED <<histories, Agents, reward_caches, t, episodes, episode, goal_cache, possible_goals, n_goals, credited>>

\* Agent.update called on agent i alone: the agent moves to position p
Agent_update(i, p) ==
  /\ i \in 1..Len(Agents)
  /\ Agents[i].pos # p
  /\ Agents' = [Agents EXCEPT ![i].pos = p]
  /\ err' = "none" /\ ret' = <<>> /\ checked' = {}
  /\ Ghost("call", <<>>)
  /\ UNCHANGED <<histories, reward_caches, t, episodes, episode, goal_cache, possible_goals, n_goals, credited>>

\* RewardCache.append(reward) on agent i's cache: a copy of the template
RewardCache_append(i, reward) ==
  /\ i \in 1..Len(reward_caches)
  /\ Len(reward_caches[i]) < MaxCache
  /\ reward_caches' = [reward_caches EXCEPT ![i] = Append(@, reward)]
  /\ err' = "none" /\ ret' = <<>> /\ checked' = {}
  /\ Ghost("call", <<>>)
  /\ UNCHANGED <<histories, Agents, t, episodes, episode, goal_cache, possible_goals, n_goals, credited>>

\* lines 966-967, done by the caller: reward_caches[agent].append(reward)
\* with a reward template; copy() is shallow, so the copy keeps the
\* template's history dict
deposit(i, reward) ==
  /\ i \in 1..Len(reward_caches)
  /\ Len(reward_caches[i]) < MaxLedger
  /\ reward_caches' = [reward_caches EXCEPT ![i] = Append(@, reward)]
  /\ err' = "none" /\ ret' = <<>> /\ checked' = {}
  /\ Ghost("call", <<>>)
  /\ UNCHANGED <<histories, Agents, t, episodes, episode, goal_cache, possible_goals, n_goals, credited>>

\* the decay arguments, knob lists and initial states a caller constructs a
\* reward with
DecayArgs == {"constant", "linear", "none", "bogus", NoDecay, custom_decay}
KnobArgs == {<<>>} \cup {<<a>> : a \in 1..3}
StateArgs == {1, -2}

\* agent.reward.append(Reward(init_state, dt, expire_clock=MaxExpire*dt,
\* decay=decay, decay_knobs=decay_knobs)) on the empty ledger of the first
\* agent; when __init__ raises nothing is appended
Reward_new(init_state, decay_arg, decay_knobs) ==
  LET e == Reward_raises(decay_arg, decay_knobs) IN
  /\ Len(reward_caches) >= 1
  /\ reward_caches[1] = <<>>
  /\ err' = e
  /\ reward_caches' = IF e # "none" THEN reward_caches
       ELSE [reward_caches EXCEPT ![1] =
               <<Reward(init_state, dt, MaxExpire * dt, decay_arg, decay_knobs, None, 1, "new")>>]
  /\ histories' = IF e # "none" THEN histories ELSE [histories EXCEPT !["new"] = <<>>]
  /\ ret' = <<>> /\ checked' = {}
  /\ Ghost("Reward", <<decay_arg, decay_knobs>>)
  /\ UNCHANGED <<Agents, t, episodes, episode, goal_cache, possible_goals, n_goals, credited>>

\* RewardCache.update called on agent i's cache
cache_update(i) ==
  LET s == CacheLoop(Tick(reward_caches[i]), 1, <<>>) IN
  /\ i \in 1..Len(reward_caches)
  /\ \A h \in Histories : Len(histories[h]) < MaxHistory
  /\ \A j \in 1..Len(reward_caches[i]) : reward_caches[i][j].sweeps < MaxHistory
  /\ reward_caches' = [reward_caches EXCEPT ![i] = s.cache]
  /\ histories' = Record(histories, s.trace)
  /\ err' = s.err /\ ret' = <<>> /\ checked' = {}
  /\ Ghost("update", <<i>>)
  /\ UNCHANGED <<Agents, t, episodes, episode, goal_cache, possible_goals, n_goals, credited>>

\* TaskEnvironment.step on a SpatialGoalEnvironment: the agents move
\* (Agent.update), every cache is updated, update() advances the clock and
\* calls _is_terminal_state, whose first statement (line 965) calls
\* goal_cache.check_and_remove_satisfied, a method GoalCache does not
\* have: AttributeError, and step returns nothing
step ==
  \E newpos \in [1..Len(Agents) -> Positions] :
  LET u == UpdateCaches(reward_caches, 1, <<>>) IN
  /\ t < MaxT
  /\ Agents' = [k \in 1..Len(Agents) |-> [Agents[k] EXCEPT !.pos = newpos[k]]]
  /\ reward_caches' = u.caches
  /\ histories' = Record(histories, u.trace)
  /\ t' = IF u.err = "none" THEN t + dt ELSE t
  /\ err' = IF u.err = "none" THEN "AttributeError" ELSE u.err
  /\ ret' = <<>> /\ checked' = {}
  /\ Ghost("step", <<>>)
  /\ UNCHANGED <<episodes, episode, goal_cache, possible_goals, n_goals, credited>>

\* TaskEnvironment.step (lines 376-414) on a subclass that inherits update()
\* and whose _is_terminal_state returns the boolean terminal
TaskEnvironment_step(terminal) ==
  \E newpos \in [1..Len(Agents) -> Positions] :
  LET u == UpdateCaches(reward_caches, 1, <<>>)
      n == Len(Agents)
  IN
  /\ t < MaxT
  /\ Agents' = [k \in 1..n |-> [Agents[k] EXCEPT !.pos = newpos[k]]]
  /\ reward_caches' = u.caches
  /\ histories' = Record(histories, u.trace)
  /\ t' = IF u.err = "none" THEN t + dt ELSE t
  /\ err' = u.err
  /\ ret' = IF u.err # "none" THEN <<>>
            ELSE <<get_observation(Agents'), get_reward(u.caches),
                   dict_of_value(n, terminal), dict_of_value(n, FALSE),
                   dict_of_list(n, <<info>>)>>
  /\ checked' = {}
  /\ Ghost("TaskEnvironment.step", <<>>)
  /\ UNCHANGED <<episodes, episode, goal_cache, possible_goals, n_goals, credited>>

\* SpatialGoalEnvironment.reset(goal_locations, n_objectives); given says
\* goal_locations is not None, locs is then the list, n_objectives = -1 is None
reset(given, locs, n_objectives) ==
  LET ng == IF given THEN Len(locs)
            ELSE IF n_objectives >= 0 THEN n_objectives ELSE n_goals
      r  == ResetGoals(possible_goals, ng, given)
  IN
  /\ episode < MaxEpisode
  /\ episodes' = TaskEnvironment_reset(episodes, episode, t)
  /\ episode' = episode + 1
  /\ goal_cache' = [goal_cache EXCEPT !.goals = r[1]]
  /\ err' = r[2]
  /\ ret' = IF r[2] = "none" THEN <<get_observation(Agents)>> ELSE <<>>
  /\ checked' = {}
  /\ Ghost("reset", IF given THEN <<ng, locs>> ELSE <<ng>>)
  /\ UNCHANGED <<histories, Agents, reward_caches, t, possible_goals, n_goals, credited>>

\* the environment driven through step() and reset(), with its agents,
\* ledgers and a goal cache in one of the two documented modes
Next ==
  \/ \E p \in Positions : add_agents(p, dt)
  \/ \E m \in {"sequential", "nonsequential"} : GoalCache_new(m, "interact")
  \/ \E g \in CandidateGoals : GoalCache_append(g)
  \/ \E i \in 1..MaxAgents, r \in Templates : RewardCache_append(i, r)
  \/ step
  \/ \E n \in {-1, 0, 2} : reset(FALSE, <<>>, n)
  \/ \E locs \in {<<>>, <<0>>} : reset(TRUE, locs, -1)

Spec == Init /\ [][Next]_vars

\* the goal cache driven on its own, in every mode: agents are added and
\* moved, the cache is built, filled, cleared and checked
InitCache == Init /\ possible_goals = <<>>

NextCache ==
  \/ \E p \in Positions : add_agents(p, dt)
  \/ \E m \in Modes, a \in AgentModes : GoalCache_new(m, a)
  \/ \E g \in CandidateGoals : GoalCache_append(g)
  \/ GoalCache_clear
  \/ check
  \/ \E i \in 1..MaxAgents, p \in Positions : Agent_update(i, p)

SpecCache == InitCache /\ [][NextCache]_vars

\* the goals checked one by one: agents are added and moved, goals put
\* in the cache and each goal asked which agents reached it
NextGoal ==
  \/ \E p \in Positions : add_agents(p, dt)
  \/ \E g \in CandidateGoals \cup KeywordGoals : GoalCache_append(g)
  \/ \E i \in 1..MaxAgents, p \in Positions : Agent_update(i, p)
  \/ \E k \in 1..MaxGoals : goal_check(k)

SpecGoal == InitCache /\ [][NextGoal]_vars

\* the episode log: agents are added, the environment is stepped and reset
NextEpisodes ==
  \/ \E p \in Positions : add_agents(p, dt)
  \/ step
  \/ \E n \in {-1, 0, 2} : reset(FALSE, <<>>, n)
  \/ \E locs \in {<<>>, <<0>>} : reset(TRUE, locs, -1)

SpecEpisodes == Init /\ [][NextEpisodes]_vars

\* the ledger of the first agent driven on its own: rewards are deposited
\* in it and it is updated
NextLedger ==
  \/ add_agents(0, dt)
  \/ \E r \in LedgerTemplates : deposit(1, r)
  \/ cache_update(1)

SpecLedger == InitCache /\ [][NextLedger]_vars

\* episodes of a sequential cache: agents are added and moved, the cache is
\* built, filled and checked, and the environment is reset
NextReset ==
  \/ \E p \in Positions : add_agents(p, dt)
  \/ GoalCache_new("sequential", "interact")
  \/ \E g \in CandidateGoals : GoalCache_append(g)
  \/ check
  \/ \E i \in 1..MaxAgents, p \in Positions : Agent_update(i, p)
  \/ \E n \in {-1, 0, 2} : reset(FALSE, <<>>, n)
  \/ \E locs \in {<<>>, <<0>>} : reset(TRUE, locs, -1)

SpecReset == Init /\ [][NextReset]_vars

\* a reward constructed, put in the empty ledger of the first agent and
\* updated there until it expires
NextReward ==
  \/ add_agents(0, dt)
  \/ \E s0 \in StateArgs, d \in DecayArgs, k \in KnobArgs : Reward_new(s0, d, k)
  \/ cache_update(1)

SpecReward == InitCache /\ [][NextReward]_vars

\* the base class: agents of either time step are added, rewards are put
\* in their ledgers and the environment is stepped
NextBase ==
  \/ \E p \in Positions, agent_dt \in {dt, 2 * dt} : add_agents(p, agent_dt)
  \/ \E i \in 1..MaxAgents, r \in Templates : RewardCache_append(i, r)
  \/ \E terminal \in BOOLEAN : TaskEnvironment_step(terminal)

SpecBase == InitCache /\ [][NextBase]_vars

\* ---------------------------------------------------------------- properties
\* the cache is in a documented ordering mode and holds a cursor for every agent
Configured ==
  /\ goal_cache.mode \in {"sequential", "nonsequential"}
  /\ Len(Agents) >= 1
  /\ DOMAIN goal_cache.last_acheived = 0..(Len(Agents) - 1)

\* the most recent call was a step() of one agent that found one goal in
\* the cache, no goal credited yet, and ended with the agent inside the
\* goal's radius
StepOnGoal ==
  /\ op = "step" /\ Configured
  /\ Len(Agents) = 1 /\ Len(pre.goals) = 1
  /\ goal_cache.last_acheived[0] = -1
  /\ in_goal_radius(pre.goals[1], Agents[1].pos)

\* C1: every step() runs one resolution pass and every satisfaction the pass
\* finds adds exactly one reward to that agent's ledger: with one agent and
\* one goal, a step that ends on the goal returns and leaves the ledger one
\* entry longer than its aged content.
C1_StepCreditsOnce ==
  StepOnGoal =>
    /\ err = "none"
    /\ Len(reward_caches[1]) = Len(RewardCache_update(pre.caches[1])) + 1

\* C2: the terminal flag step() returns for each agent is true on the tick
\* whose check leaves no goal in the cache and false on every tick where
\* goals remain.
C2_TerminalFlag ==
  (op = "step" /\ Configured /\ pre.goals # <<>>) =>
    /\ ret # <<>>
    /\ \A k \in 1..Len(Agents) : ret[3][k] = (Len(goal_cache.goals) = 0)

\* C3: step() ages the ledgers before it resolves the goal cache and deposits
\* the new rewards, so a reward deposited in a tick ends the tick as the
\* template was (state and expire_clock not advanced), behind the aged
\* older entries.
C3_DepositNotAged ==
  StepOnGoal =>
    LET cache == reward_caches[1] IN
    /\ cache # <<>>
    /\ cache[Len(cache)].state = pre.goals[1].reward.state
    /\ cache[Len(cache)].expire_clock = pre.goals[1].reward.expire_clock
    /\ SubSeq(cache, 1, Len(cache) - 1) = RewardCache_update(pre.caches[1])

\* C4: the reward step() returns for every agent is the total of that
\* agent's ledger as it stands when step() returns.
C4_RewardIsTotal ==
  (op = "step" /\ \E k \in 1..Len(Agents) : reward_caches[k] # <<>>) =>
    /\ ret # <<>>
    /\ \A k \in 1..Len(Agents) : ret[2][k] = get_total(reward_caches[k])

\* goal indices the most recent check() reported as satisfied
Satisfied == {goal_cache.last_acheived[ret[2][j]] : j \in 1..Len(ret[2])}

\* C5: in shared ("interact") mode a goal some agent satisfied in a pass is
\* gone from the cache after the pass: the cache is shorter by one goal per
\* satisfied goal.
C5_SharedGoalRetired ==
  (op = "check" /\ goal_cache.agentmode = "interact" /\ ret # <<>> /\ ret[2] # <<>>) =>
    Len(goal_cache.goals) = Len(pre.goals) - Cardinality(Satisfied)

\* C6: a step() whose resolution pass leaves no goal in the cache resets the
\* environment in that same step: the open episode record is closed and a
\* new one is opened.
C6_TerminalStepResets ==
  (StepOnGoal /\ pre.nstart > 0) =>
    /\ Len(episodes.start) = pre.nstart + 1
    /\ Len(episodes.end) = pre.nstart

C8_EveryAgentCredited ==
  (op = "check" /\ goal_cache.mode = "sequential" /\ err = "none") =>
    \A i \in DOMAIN pre.last :
      in_goal_radius(pre.goals[pre.last[i] + 2], Agents[i + 1].pos) =>
        /\ goal_cache.last_acheived[i] = pre.last[i] + 1
        /\ \E j \in 1..Len(ret[2]) : ret[2][j] = i

\* C9: the sequential cursor stays inside the goal sequence, so a pass over
\* a cache that holds goals never indexes past the end, also after an agent
\* was credited the last goal.
C9_NeverPastTheEnd ==
  (op = "check" /\ goal_cache.mode = "sequential" /\ Configured
     /\ goal_cache.agentmode # "parallel" /\ goal_cache.goals # <<>>) =>
    err # "IndexError"

\* C10: in nonsequential mode check() tests every goal against all agents
\* and returns <<rewards, agent indices>>, two lists with one entry per
\* satisfaction found; it does not fail.
C10_NonSequentialReturns ==
  (op = "check" /\ goal_cache.mode = "nonsequential" /\ Configured
     /\ goal_cache.agentmode # "parallel" /\ goal_cache.goals # <<>>) =>
    /\ err = "none"
    /\ ret # <<>>
    /\ Len(ret[1]) = Len(ret[2])
    /\ Len(ret[2]) = Cardinality({c \in checked :
                       in_goal_radius(goal_cache.goals[c[2] + 1], Agents[c[1] + 1].pos)})

\* the agent indices the most recent call returned
Rewarded == {ret[2][j] : j \in 1..Len(ret[2])}

\* C11: in shared ("interact") mode, when several agents satisfy the same
\* goal in the same pass every one of them is credited in that pass: with
\* two agents that both owe the first goal and both stand in its radius,
\* the pass returns and reports both.
C11_AllSatisfiersCredited ==
  (op = "check" /\ Configured /\ goal_cache.agentmode = "interact"
     /\ Len(Agents) = 2 /\ pre.goals # <<>>
     /\ \A i \in DOMAIN pre.last :
          pre.last[i] = -1 /\ in_goal_radius(pre.goals[1], Agents[i + 1].pos)) =>
    /\ ret # <<>>
    /\ Rewarded = {0, 1}

\* C12: in per-agent ("noninteract") mode a goal agent A was credited stays
\* in the cache for the agents that were not: when a pass returns, an agent
\* B that owes such a goal and stands in its radius is credited it, the
\* goals of the cache are the ones the pass found, and A is not credited
\* that goal again.
C12_StaysForOthers ==
  (op = "check" /\ Configured /\ goal_cache.agentmode = "noninteract"
     /\ goal_cache.mode = "sequential" /\ err = "none") =>
    \A A \in DOMAIN pre.last, B \in DOMAIN pre.last :
      \A g \in 0..(Len(pre.goals) - 1) :
        (A # B /\ pre.last[A] >= g /\ pre.last[B] = g - 1
           /\ in_goal_radius(pre.goals[g + 1], Agents[B + 1].pos)) =>
          /\ goal_cache.goals = pre.goals
          /\ B \in Rewarded
          /\ goal_cache.last_acheived[B] = g
          /\ ~(A \in Rewarded /\ goal_cache.last_acheived[A] = g)

\* the ledger the most recent RewardCache.update found, with the update
\* counted for each of its entries, and the ledger it left
Found == Tick(pre.caches[pre.arg[1]])
Left == reward_caches[pre.arg[1]]

\* C13: a reward added with expire_clock = k*dt leaves its ledger in the
\* k-th update of the ledger after it was added, not before and not after,
\* whatever else the ledger holds: an update removes exactly the entries
\* for which it is the k-th.
C13_EvictedAtKth ==
  (op = "update" /\ err = "none"
     /\ \A j \in 1..Len(Found) : Found[j].born > 0
                                 /\ Found[j].sweeps * Found[j].dt <= Found[j].born) =>
    LET due(e) == e.sweeps * e.dt = e.born
        name(e) == <<e.history, e.born, e.sweeps>>
        stay == SelectSeq(Found, LAMBDA e : ~due(e))
    IN [j \in 1..Len(Left) |-> name(Left[j])] = [j \in 1..Len(stay) |-> name(stay[j])]

\* C14: one update of a ledger updates every reward it held at the start
\* exactly once, also the reward behind one the update removes.
C14_NoneSkipped ==
  (op = "update" /\ err = "none"
     /\ \A j \in 1..Len(Found) : Found[j].expire_clock > 0) =>
    Left = SelectSeq([j \in 1..Len(Found) |-> Reward_update(Found[j])], StillActive)

\* C15: every reward in a ledger has expire_clock > 0, so the total never
\* counts a reward whose clock has run out.
C15_MembersAlive ==
  \A i \in 1..Len(reward_caches) : \A j \in 1..Len(reward_caches[i]) :
    reward_caches[i][j].expire_clock > 0

\* C16: one update of a reward sets state to
\* state + (drive_term - decay(state)) * dt, with drive_term =
\* strength * (drive - state) under an external drive and 0 without, takes
\* dt off expire_clock, and reports the reward active iff the new clock is
\* positive; constant(a) = a, linear(a) = a * state, none = 0.
C16_OneAdvance ==
  (op = "update" /\ Len(Found) = 1) =>
    LET e == Found[1]
        law == CASE e.preset = "constant" -> e.decay_knobs[1]
                 [] e.preset = "linear"   -> e.decay_knobs[1] * e.state
                 [] e.preset = "none"     -> 0
        drive_term == IF e.external_drive = None THEN 0
                      ELSE e.external_drive_strength * (e.external_drive - e.state)
        state == e.state + (drive_term - law) * e.dt
        clock == e.expire_clock - e.dt
    IN /\ err = "none"
       /\ Left = IF clock > 0
                   THEN <<[e EXCEPT !.state = state, !.expire_clock = clock]>>
                   ELSE <<>>

\* C17: a deposited reward is a copy independent of its template and of
\* the other copies: the template's history stays empty whatever happens to
\* the copies, and the history of a copy holds one record per update of
\* that copy.
C17_CopiesIndependent ==
  /\ \A r \in LedgerTemplates : histories[r.history] = <<>>
  /\ \A i \in 1..Len(reward_caches) : \A j \in 1..Len(reward_caches[i]) :
       LET e == reward_caches[i][j]
       IN Len(histories[e.history]) * e.dt = e.born - e.expire_clock

\* C18: SpatialGoal.check reports an agent iff its distance to the goal
\* position is strictly less than the radius, so not at the radius itself,
\* and returns as many rewards as agent indices.
C18_StrictRadius ==
  op = "goal.check" =>
    LET goal == pre.arg[1] IN
    /\ Len(ret[1]) = Len(ret[2])
    /\ \A i \in 0..(Len(Agents) - 1) :
         (i \in Rewarded) <=> (distance(Agents[i + 1].pos, goal.goal_pos) < goal.radius)

\* of two agents the first stands on the rim of the goal and is left out,
\* the second stands inside and is reported
C18_Witness ==
  /\ op = "goal.check" /\ Len(Agents) = 2
  /\ distance(Agents[1].pos, pre.arg[1].goal_pos) = pre.arg[1].radius
  /\ ret[2] = <<1>> /\ Len(ret[1]) = 1

\* C19: the first reset() opens an episode record that starts at 0; every
\* later reset() closes the open record with end = the current time and
\* duration = end - start, and opens a record that starts at that end + dt.
C19_EpisodeLog ==
  op = "reset" =>
    LET n == Len(episodes.start) IN
    /\ n = pre.nstart + 1
    /\ Len(episodes.end) = pre.nstart /\ Len(episodes.duration) = pre.nstart
    /\ episodes.start[1] = 0
    /\ pre.nstart >= 1 =>
         /\ episodes.end[n - 1] = t
         /\ episodes.duration[n - 1] = episodes.end[n - 1] - episodes.start[n - 1]
         /\ episodes.start[n] = episodes.end[n - 1] + dt

\* a second reset(), one tick after the first
C19_Witness ==
  /\ op = "reset" /\ pre.nstart = 1 /\ t = dt
  /\ episodes.start = <<0, 2 * dt>> /\ episodes.end = <<dt>>
  /\ episodes.duration = <<dt>>

\* C20: reset(goal_locations=L) raises iff some entry of L is not the
\* position of a possible goal; when every entry is, it returns and the
\* cache holds the possible goals at the positions of L, in the order of L.
C20_GoalLocations ==
  (op = "reset" /\ Len(pre.arg) = 2) =>
    LET L == pre.arg[2]
        known(x) == \E k \in 1..Len(possible_goals) : possible_goals[k].goal_pos = x
    IN /\ (err # "none") <=> (\E j \in 1..Len(L) : ~known(L[j]))
       /\ err = "none" =>
            /\ Len(goal_cache.goals) = Len(L)
            /\ \A j \in 1..Len(L) : goal_cache.goals[j].goal_pos = L[j]

\* C21: add_agents with an agent whose dt is not the environment's dt
\* raises and leaves the agents and the ledgers as they were.
C21_DtMismatchRejected ==
  (op = "add_agents" /\ pre.arg[1] # dt) =>
    /\ err # "none"
    /\ Len(Agents) = Len(pre.caches)
    /\ reward_caches = pre.caches

\* C25: the rewards, terminated, truncated and info values step() returns
\* are mappings with one entry for every agent.
C25_OneEntryPerAgent ==
  op = "TaskEnvironment.step" =>
    /\ ret # <<>>
    /\ \A x \in 2..5 : DOMAIN ret[x] = 1..Len(Agents)

C23_UnknownPresetFails ==
  (op = "Reward" /\ pre.arg[1] \notin PresetNames \cup {NoDecay, custom_decay}) =>
    /\ err # "none"
    /\ reward_caches[1] = <<>>

\* an unknown name was given together with a knob
C23_Witness ==
  /\ op = "Reward" /\ pre.arg = <<"bogus", <<2>>>>
  /\ err = "KeyError" /\ reward_caches[1] = <<>>

\* C24: Reward(...) with a function as decay and no knobs, and Reward(...)
\* with no decay at all, both return a reward, and every update of that
\* reward returns, with the function, or the constant law with its preset
\* knob, as decay(state).
C24_CustomAndDefaultDecay ==
  /\ (op = "Reward" /\ pre.arg[1] \in {NoDecay, custom_decay} /\ pre.arg[2] = <<>>) =>
       /\ err = "none"
       /\ Len(reward_caches[1]) = 1
  /\ (op = "update" /\ Len(Found) = 1 /\ Found[1].decay \in {"lambda", "function"}) =>
       LET e == Found[1]
           rate == IF e.decay = "function" THEN custom_law(e.state)
                   ELSE e.decay_knobs[1]
           after == [e EXCEPT !.state = e.state - rate * e.dt,
                              !.expire_clock = e.expire_clock - e.dt]
       IN /\ err = "none"
          /\ Left = IF after.expire_clock > 0 THEN <<after>> ELSE <<>>

\* C26: a reward constructed with expire_clock=None never expires: no
\* update of a ledger removes it.
C26_NoneNeverExpires ==
  (op = "update" /\ err = "none") =>
    LET forever(e) == e.history = short.history
    IN Len(SelectSeq(Left, forever)) = Len(SelectSeq(Found, forever))

\* a reward with linear decay of a positive knob and no external drive
Linear(e) ==
  /\ e.decay = "partial" /\ e.preset = "linear" /\ e.external_drive = None
  /\ Len(e.decay_knobs) = 1 /\ e.decay_knobs[1] > 0

\* the updates a reward has had
Updates(e) == (e.born - e.expire_clock) \div e.dt

\* state0 * (1 - a * dt) ^ n
ClosedForm(e, n) == e.state0 * Pow(1 - e.decay_knobs[1] * e.dt, n)

\* the state after n updates is no further from zero than the state before
\* it and not on the other side of zero
TowardZero(e, n) ==
  /\ Abs(ClosedForm(e, n)) <= Abs(ClosedForm(e, n - 1))
  /\ ClosedForm(e, n) * ClosedForm(e, n - 1) >= 0

C28_ResetRestoresCache ==
  (op = "reset" /\ err = "none") =>
    /\ Len(goal_cache.goals) = pre.arg[1]
    /\ \A i \in DOMAIN goal_cache.last_acheived : goal_cache.last_acheived[i] = -1

\* C29: the rewards a SpatialGoal hands out on satisfaction are the
\* template it was constructed with: same state, expire_clock and decay
\* law, and not those of the module's default template.
C29_GivenTemplateUsed ==
  op = "goal.check" =>
    \A j \in 1..Len(ret[1]) :
      LET R == pre.arg[1].asked IN
      /\ ret[1][j].state = R.state
      /\ ret[1][j].expire_clock = R.expire_clock
      /\ ret[1][j].preset = R.preset
      /\ ret[1][j].decay_knobs = R.decay_knobs

\* the closed records of the log
Closed == 1..Len(episodes.end)

\* C30: once reset() has been called the episode log is well formed: start
\* and episode have the same length n >= 1, end and duration have length
\* n - 1, the episode indices are 1..n in order, and every closed record has
\* duration = end - start >= 0.
C30_LogWellFormed ==
  Len(episodes.start) >= 1 =>
    LET n == Len(episodes.start) IN
    /\ Len(episodes.episode) = n
    /\ Len(episodes.end) = n - 1 /\ Len(episodes.duration) = n - 1
    /\ \A k \in 1..n : episodes.episode[k] = k
    /\ \A k \in Closed :
         /\ episodes.duration[k] = episodes.end[k] - episodes.start[k]
         /\ episodes.duration[k] >= 0

\* the <<agent, goal>> pairs the most recent check() tested whose agent
\* stands in the radius of the goal
Hits == {c \in checked : c[2] < Len(pre.goals) /\ c[1] < Len(Agents)
           /\ in_goal_radius(pre.goals[c[2] + 1], Agents[c[1] + 1].pos)}

\* C31: a pass of check() over a cache that holds goals, in one of the two
\* modes check() knows, that tested some goal and found no agent in the
\* radius of a goal it tested returns <<[], []>> and leaves the goals of the
\* cache, the cursor of every agent and the entries of every ledger as they
\* were.
C31_IdlePass ==
  (op = "check" /\ Configured /\ goal_cache.mode \in {"sequential", "nonsequential"}
     /\ goal_cache.agentmode # "parallel" /\ pre.goals # <<>>
     /\ checked # {} /\ Hits = {}) =>
    /\ ret = <<(<<>>), (<<>>)>>
    /\ goal_cache.goals = pre.goals
    /\ goal_cache.last_acheived = pre.last
    /\ reward_caches = pre.caches

====
